---- MODULE Spec2Model ----
(***************************************************************************)
(* Model of anonymize_reserves.py: the label generator, the mapping        *)
(* builder, the anonymizer and the load / anonymize / save pipeline of     *)
(* main.                                                                   *)
(*                                                                         *)
(* Python values are tagged records: a str is [t |-> "str", s |-> <<code   *)
(* points>>], None is [t |-> "none"], a dict is [t |-> "dict", f |-> a     *)
(* function from its keys to values].  Entry dicts live in a heap and are  *)
(* referred to by address, so that copying and aliasing are different.     *)
(***************************************************************************)
EXTENDS Integers, Sequences, FiniteSets, TLC

VARIABLES
    mode,          \* which entry point runs: "labels", "mapping" or "main"
    count,         \* argument of generate_labels
    labels,        \* list(generate_labels(count)), once produced
    titles,        \* argument of build_mapping
    mapping,       \* result of build_mapping (a dict: title -> label)
    pc,            \* position of the running entry point
    input_file,    \* the file at input_path
    heap,          \* entry objects, by address
    data,          \* main's `data`: rooms, their entries held by address
    anonymized,    \* main's `anonymized`
    output_file,   \* the file at output_path
    stdout,        \* lines printed
    error          \* the exception that ended the run, if any

vars == <<mode, count, labels, titles, mapping, pc, input_file, heap, data,
          anonymized, output_file, stdout, error>>

-----------------------------------------------------------------------------
(* Bounds *)

MaxCount == 730     \* largest count handed to generate_labels
MaxTitles == 3      \* longest title sequence handed to build_mapping
MaxSize == 4        \* rooms plus entries of an input document

-----------------------------------------------------------------------------
(* Python values *)

None == [t |-> "none"]
Str(s) == [t |-> "str", s |-> s]
Dict(f) == [t |-> "dict", f |-> f]

\* The function with no key: the content of {}.
Empty == [k \in {} |-> None]
EmptyDict == Dict(Empty)

Min(a, b) == IF a <= b THEN a ELSE b

-----------------------------------------------------------------------------
(* generate_labels *)

base == 26
OrdA == 65

\* A plausible slip: plain base-26 conversion, without the `n -= 1` step.
RECURSIVE LabelOfPlainBase(_, _)
LabelOfPlainBase(n, label) ==
    LET l2 == <<OrdA + (n % base)>> \o label
        n2 == n \div base
    IN  IF n2 = 0 THEN l2 ELSE LabelOfPlainBase(n2, l2)

\* The `while True` loop of generate_labels, entered with n and label.
RECURSIVE LabelOf(_, _)
LabelOf(n, label) ==
    LET l2 == <<OrdA + (n % base)>> \o label
        n2 == n \div base
    IN  IF n2 = 0 THEN l2 ELSE LabelOf(n2 - 1, l2)

\* A plausible slip: every label is converted from 0 instead of num.
generate_labels_first(c) == [i \in 1..c |-> Str(LabelOf(0, <<>>))]

\* list(generate_labels(c)): one label per num in range(c).
generate_labels(c) == [i \in 1..c |-> Str(LabelOf(i - 1, <<>>))]

-----------------------------------------------------------------------------
(* build_mapping *)

\* Python's < on two str values: code point order, a proper prefix first.
StrLess(a, b) ==
    \E i \in 1..(Min(Len(a), Len(b)) + 1) :
        /\ \A j \in 1..(i - 1) : a[j] = b[j]
        /\ \/ i > Len(a) /\ i <= Len(b)
           \/ i <= Len(a) /\ i <= Len(b) /\ a[i] < b[i]

\* x < y as list.sort evaluates it; only asked of two str values.
ValLess(x, y) == StrLess(x.s, y.s)

\* set(titles)
SetOf(ts) == {ts[i] : i \in 1..Len(ts)}

\* sorted() raises TypeError as soon as it has to compare a value that is not
\* a str; a list of fewer than two elements is never compared.
SortedRaises(S) == Cardinality(S) > 1 /\ \E x \in S : x.t # "str"

\* A plausible slip: the unique titles in descending order.
RECURSIVE SortedDescending(_)
SortedDescending(S) ==
    IF S = {} THEN <<>>
    ELSE LET m == CHOOSE x \in S : \A y \in S \ {x} : ValLess(y, x)
         IN  <<m>> \o SortedDescending(S \ {m})

\* sorted(S) for a set S on which it does not raise.
RECURSIVE Sorted(_)
Sorted(S) ==
    IF S = {} THEN <<>>
    ELSE LET m == CHOOSE x \in S : \A y \in S \ {x} : ValLess(x, y)
         IN  <<m>> \o Sorted(S \ {m})

\* zip(a, b): pairs up to the shorter argument.
Zip(a, b) == [i \in 1..Min(Len(a), Len(b)) |-> <<a[i], b[i]>>]

\* dict(pairs): a later pair with the same key wins.
DictOfPairs(ps) ==
    [k \in {ps[i][1] : i \in 1..Len(ps)} |->
        LET last == CHOOSE i \in 1..Len(ps) :
                        /\ ps[i][1] = k
                        /\ \A j \in (i + 1)..Len(ps) : ps[j][1] # k
        IN  ps[last][2]]

build_mapping_raises(ts) == SortedRaises(SetOf(ts))

build_mapping(ts) ==
    LET unique_titles == Sorted(SetOf(ts))
        lbls == generate_labels(Len(unique_titles))
    IN  DictOfPairs(Zip(unique_titles, lbls))

-----------------------------------------------------------------------------
(* Entry point: list(generate_labels(count)) *)

\* `mapping` before build_mapping has returned, and the mapping of no title.
NoMapping == Empty

InitLabels ==
    /\ mode = "labels"
    /\ count \in 0..MaxCount
    /\ labels = <<>>
    /\ titles = <<>>
    /\ mapping = NoMapping
    /\ pc = "Start"
    /\ input_file = [kind |-> "missing"]
    /\ heap = <<>>
    /\ data = <<>>
    /\ anonymized = <<>>
    /\ output_file = [kind |-> "missing"]
    /\ stdout = <<>>
    /\ error = "none"

GenerateLabels ==
    /\ mode = "labels"
    /\ pc = "Start"
    /\ labels' = generate_labels(count)
    /\ pc' = "Done"
    /\ UNCHANGED <<mode, count, titles, mapping, input_file, heap, data,
                   anonymized, output_file, stdout, error>>

NextLabels == GenerateLabels

SpecLabels == InitLabels /\ [][NextLabels]_vars

-----------------------------------------------------------------------------
(* Entry point: build_mapping(titles) *)

\* The titles of the model: "A", "AB", "B" and "a", in code point order.
TitleStrings == {Str(<<65>>), Str(<<65, 66>>), Str(<<66>>), Str(<<97>>)}

SeqsUpTo(S, n) == UNION {[1..k -> S] : k \in 0..n}

InitMapping ==
    /\ mode = "mapping"
    /\ count = 0
    /\ labels = <<>>
    /\ titles \in SeqsUpTo(TitleStrings, MaxTitles)
    /\ mapping = NoMapping
    /\ pc = "Start"
    /\ input_file = [kind |-> "missing"]
    /\ heap = <<>>
    /\ data = <<>>
    /\ anonymized = <<>>
    /\ output_file = [kind |-> "missing"]
    /\ stdout = <<>>
    /\ error = "none"

BuildMapping ==
    /\ mode = "mapping"
    /\ pc = "Start"
    /\ ~build_mapping_raises(titles)
    /\ mapping' = build_mapping(titles)
    /\ pc' = "Done"
    /\ UNCHANGED <<mode, count, labels, titles, input_file, heap, data,
                   anonymized, output_file, stdout, error>>

NextMapping == BuildMapping

SpecMapping == InitMapping /\ [][NextMapping]_vars

-----------------------------------------------------------------------------
(* Documents: the JSON values a run may find in the input file *)

KeyTitle == "title"
KeyRoom == "room"
KeyEntries == "entries"

\* Values a title key carries: "AB", "B", or null.
TitleValues == {Str(<<65, 66>>), Str(<<66>>), None}
\* Value of the one other entry key, "note": "x".
NoteValues == {Str(<<120>>)}
\* Values of the room key and of one further room-level key, "floor".
RoomIds == {Str(<<49, 48, 49>>)}
FloorValues == {Str(<<50>>)}

\* [k |-> v], and the union of two functions with disjoint domains.
Single(k, v) == [x \in {k} |-> v]
Merge(f, g) == [x \in DOMAIN f \cup DOMAIN g |-> IF x \in DOMAIN f THEN f[x] ELSE g[x]]

OptionalKey(k, V) == {Empty} \cup {Single(k, v) : v \in V}

\* An entry is an object with an optional title and an optional note, or,
\* out of shape, the JSON string "abc".
EntryValues ==
    {Dict(Merge(t, n)) : t \in OptionalKey(KeyTitle, TitleValues),
                         n \in OptionalKey("note", NoteValues)}
    \cup {Str(<<97, 98, 99>>)}

\* The room-level keys of a room other than entries: its identifier, or no
\* identifier and a key the anonymizer does not know.
RoomHeads ==
    {Single(KeyRoom, r) : r \in RoomIds} \cup {Single("floor", f) : f \in FloorValues}

\* A room in outline: its head, and whether it has an entries key.
RoomShells == [head : RoomHeads, listed : BOOLEAN]

RECURSIVE SumTo(_, _)
SumTo(lens, i) == IF i = 0 THEN 0 ELSE SumTo(lens, i - 1) + lens[i]

\* The document whose i-th room has the keys of shells[i] and, when it has an
\* entries key, the next lens[i] entries of es.
DocumentOf(shells, lens, es) ==
    [i \in 1..Len(shells) |->
        IF shells[i].listed
        THEN Dict(Merge(shells[i].head,
                        Single(KeyEntries,
                               SubSeq(es, SumTo(lens, i - 1) + 1, SumTo(lens, i)))))
        ELSE Dict(shells[i].head)]

\* The room outlines and entry counts of the documents of at most MaxSize
\* rooms and entries altogether, r rooms among them.
EntryCounts(shells) ==
    {lens \in [1..Len(shells) -> 0..(MaxSize - Len(shells))] :
        /\ SumTo(lens, Len(shells)) <= MaxSize - Len(shells)
        /\ \A i \in 1..Len(shells) : ~shells[i].listed => lens[i] = 0}

-----------------------------------------------------------------------------
(* dict and list operations *)

\* d.get(k) and d.get(k, default)
DictGet(d, k, default) == IF k \in DOMAIN d.f THEN d.f[k] ELSE default

\* d[k] = v
DictSet(d, k, v) == Dict([x \in DOMAIN d.f \cup {k} |-> IF x = k THEN v ELSE d.f[x]])

\* sub in s, for two str values
StrContains(s, sub) ==
    \E i \in 1..(Len(s) - Len(sub) + 1) : SubSeq(s, i, i + Len(sub) - 1) = sub

TitleChars == <<116, 105, 116, 108, 101>>

\* "title" in entry: a key test on a dict, a substring test on a str.
HasTitle(entry) ==
    IF entry.t = "dict" THEN KeyTitle \in DOMAIN entry.f
    ELSE StrContains(entry.s, TitleChars)

\* room.get("entries", [])
EntriesOf(room) == DictGet(room, KeyEntries, <<>>)

RECURSIVE Concat(_)
Concat(ss) == IF ss = <<>> THEN <<>> ELSE Head(ss) \o Concat(Tail(ss))

-----------------------------------------------------------------------------
(* load_json: the parsed document, its entry objects placed in the heap *)

\* Number of entries of the rooms before room i.
RECURSIVE Offset(_, _)
Offset(doc, i) == IF i <= 1 THEN 0 ELSE Offset(doc, i - 1) + Len(EntriesOf(doc[i - 1]))

LoadedHeap(doc) == Concat([i \in 1..Len(doc) |-> EntriesOf(doc[i])])

LoadedData(doc) ==
    [i \in 1..Len(doc) |->
        IF KeyEntries \in DOMAIN doc[i].f
        THEN DictSet(doc[i], KeyEntries,
                     [j \in 1..Len(doc[i].f[KeyEntries]) |-> Offset(doc, i) + j])
        ELSE doc[i]]

\* The JSON value of a room sequence held in memory (json.dump reads it so).
Deref(h, rooms) ==
    [i \in 1..Len(rooms) |->
        IF KeyEntries \in DOMAIN rooms[i].f
        THEN DictSet(rooms[i], KeyEntries,
                     [j \in 1..Len(rooms[i].f[KeyEntries]) |-> h[rooms[i].f[KeyEntries][j]]])
        ELSE rooms[i]]

-----------------------------------------------------------------------------
(* anonymize *)

\* All entry addresses of the rooms, in document order.
AllEntries(rooms) == Concat([i \in 1..Len(rooms) |-> EntriesOf(rooms[i])])

\* First loop: the title of every entry that has one, duplicates kept.
RECURSIVE TitlesOf(_, _)
TitlesOf(h, es) ==
    IF es = <<>> THEN <<>>
    ELSE (IF HasTitle(h[Head(es)]) THEN <<h[Head(es)].f[KeyTitle]>> ELSE <<>>)
         \o TitlesOf(h, Tail(es))

CollectTitles(h, rooms) == TitlesOf(h, AllEntries(rooms))

\* entry["title"] on a str raises TypeError; build_mapping may raise too.
CollectRaises(h, rooms) ==
    \/ \E i \in 1..Len(AllEntries(rooms)) :
          LET e == h[AllEntries(rooms)[i]] IN e.t # "dict" /\ HasTitle(e)
    \/ build_mapping_raises(CollectTitles(h, rooms))

\* A plausible slip: new_entry = entry, no copy made.
AliasDict(h, a) == <<h, a>>

\* A plausible slip: new_entry = {}, the fields of entry left behind.
NewEmptyDict(h, a) == <<Append(h, EmptyDict), Len(h) + 1>>

\* new_entry = dict(entry): a new object with the keys and values of entry.
\* Gives the heap and the address of the new object.
CopyDict(h, a) == <<Append(h, h[a]), Len(h) + 1>>

\* title = entry.get("title")
LookupTitle(entry) == DictGet(entry, KeyTitle, None)

\* A plausible slip: the new entry is put at the front of the list.
RECURSIVE RewriteEntriesReversed(_, _, _, _, _)
RewriteEntriesReversed(h, m, es, i, acc) ==
    IF i > Len(es) THEN <<h, acc>>
    ELSE LET entry == es[i]
             c == CopyDict(h, entry)
             new_entry == c[2]
             title == LookupTitle(c[1][entry])
             h2 == IF title \in DOMAIN m
                   THEN [c[1] EXCEPT ![new_entry] = DictSet(@, KeyTitle, m[title])]
                   ELSE c[1]
         IN  RewriteEntriesReversed(h2, m, es, i + 1, <<new_entry>> \o acc)

\* Body of the inner loop of the second pass, for entries es[i..]: gives the
\* heap and the new entries list.
RECURSIVE RewriteEntries(_, _, _, _, _)
RewriteEntries(h, m, es, i, acc) ==
    IF i > Len(es) THEN <<h, acc>>
    ELSE LET entry == es[i]
             c == CopyDict(h, entry)
             new_entry == c[2]
             title == LookupTitle(c[1][entry])
             h2 == IF title \in DOMAIN m
                   THEN [c[1] EXCEPT ![new_entry] = DictSet(@, KeyTitle, m[title])]
                   ELSE c[1]
         IN  RewriteEntries(h2, m, es, i + 1, Append(acc, new_entry))

\* A plausible slip: the room is copied with all its keys.
NewRoomKeepingKeys(room) == DictSet(room, KeyEntries, <<>>)

\* new_room = {"room": room.get("room"), "entries": []}
NewRoom(room) ==
    Dict(Merge(Single(KeyRoom, DictGet(room, KeyRoom, None)),
               Single(KeyEntries, <<>>)))

\* Second pass over rooms[i..]: gives the heap and the list `anonymized`.
RECURSIVE RewriteRooms(_, _, _, _, _)
RewriteRooms(h, m, rooms, i, acc) ==
    IF i > Len(rooms) THEN <<h, acc>>
    ELSE LET new_room == NewRoom(rooms[i])
             r == RewriteEntries(h, m, EntriesOf(rooms[i]), 1,
                                 new_room.f[KeyEntries])
         IN  RewriteRooms(r[1], m, rooms, i + 1,
                          Append(acc, DictSet(new_room, KeyEntries, r[2])))

\* dict(entry) raises on the str "abc" (ValueError).
RewriteRaises(h, rooms) ==
    \E i \in 1..Len(AllEntries(rooms)) : h[AllEntries(rooms)[i]].t # "dict"

-----------------------------------------------------------------------------
(* Entry point: main *)

\* The input file is missing, unreadable, not JSON, or holds a document.
InputFile(f) ==
    \/ f \in {[kind |-> "missing"], [kind |-> "unreadable"], [kind |-> "malformed"]}
    \/ \E r \in 0..MaxSize :
          \E shells \in [1..r -> RoomShells] :
             \E lens \in EntryCounts(shells) :
                \E es \in [1..SumTo(lens, r) -> EntryValues] :
                   f = [kind |-> "json", doc |-> DocumentOf(shells, lens, es)]

Init ==
    /\ mode = "main"
    /\ count = 0
    /\ labels = <<>>
    /\ titles = <<>>
    /\ mapping = NoMapping
    /\ pc = "Start"
    /\ InputFile(input_file)
    /\ heap = <<>>
    /\ data = <<>>
    /\ anonymized = <<>>
    /\ output_file = [kind |-> "missing"]
    /\ stdout = <<>>
    /\ error = "none"

Fail(exc) ==
    /\ pc' = "Failed"
    /\ error' = exc

\* load_json returns the parsed document.
LoadOk ==
    /\ mode = "main" /\ pc = "Start"
    /\ input_file.kind = "json"
    /\ heap' = LoadedHeap(input_file.doc)
    /\ data' = LoadedData(input_file.doc)
    /\ pc' = "Loaded"
    /\ UNCHANGED <<mode, count, labels, titles, mapping, input_file,
                   anonymized, output_file, stdout, error>>

\* A plausible slip: a failed load is caught and an empty document returned.
LoadFailsReturnsEmpty ==
    /\ mode = "main" /\ pc = "Start"
    /\ input_file.kind # "json"
    /\ heap' = <<>>
    /\ data' = <<>>
    /\ pc' = "Loaded"
    /\ UNCHANGED <<mode, count, labels, titles, mapping, input_file,
                   anonymized, output_file, stdout, error>>

\* path.open raises FileNotFoundError, turned into SystemExit; any other
\* OSError and the parse error of json.load are not caught.
LoadFails ==
    /\ mode = "main" /\ pc = "Start"
    /\ input_file.kind # "json"
    /\ Fail(CASE input_file.kind = "missing" -> "SystemExit"
              [] input_file.kind = "unreadable" -> "OSError"
              [] input_file.kind = "malformed" -> "JSONDecodeError")
    /\ UNCHANGED <<mode, count, labels, titles, mapping, input_file, heap,
                   data, anonymized, output_file, stdout>>

\* anonymize, lines 59-64: the titles are collected and the mapping built.
MapTitles ==
    /\ mode = "main" /\ pc = "Loaded"
    /\ ~CollectRaises(heap, data)
    /\ titles' = CollectTitles(heap, data)
    /\ mapping' = build_mapping(titles')
    /\ pc' = "Mapped"
    /\ UNCHANGED <<mode, count, labels, input_file, heap, data, anonymized,
                   output_file, stdout, error>>

MapTitlesFails ==
    /\ mode = "main" /\ pc = "Loaded"
    /\ CollectRaises(heap, data)
    /\ Fail("TypeError")
    /\ UNCHANGED <<mode, count, labels, titles, mapping, input_file, heap,
                   data, anonymized, output_file, stdout>>

\* anonymize, lines 66-76: the rooms and entries are rewritten.
Rewrite ==
    /\ mode = "main" /\ pc = "Mapped"
    /\ ~RewriteRaises(heap, data)
    /\ LET r == RewriteRooms(heap, mapping, data, 1, <<>>)
       IN  /\ heap' = r[1]
           /\ anonymized' = r[2]
    /\ pc' = "Anonymized"
    /\ UNCHANGED <<mode, count, labels, titles, mapping, input_file, data,
                   output_file, stdout, error>>

\* A plausible slip: the error is caught and the run starts over.
RewriteFailsRetry ==
    /\ mode = "main" /\ pc = "Mapped"
    /\ RewriteRaises(heap, data)
    /\ pc' = "Start"
    /\ error' = "ValueError"
    /\ UNCHANGED <<mode, count, labels, titles, mapping, input_file, heap,
                   data, anonymized, output_file, stdout>>

RewriteFails ==
    /\ mode = "main" /\ pc = "Mapped"
    /\ RewriteRaises(heap, data)
    /\ Fail("ValueError")
    /\ UNCHANGED <<mode, count, labels, titles, mapping, input_file, heap,
                   data, anonymized, output_file, stdout>>

\* save_json writes the whole document and the closing newline.
SaveOk ==
    /\ mode = "main" /\ pc = "Anonymized"
    /\ output_file' = [kind |-> "json", doc |-> Deref(heap, anonymized)]
    /\ pc' = "Written"
    /\ UNCHANGED <<mode, count, labels, titles, mapping, input_file, heap,
                   data, anonymized, stdout, error>>

\* save_json raises OSError: path.open fails and nothing is created, or a
\* write fails and the file is left truncated.
SaveFails ==
    /\ mode = "main" /\ pc = "Anonymized"
    /\ output_file' \in {output_file, [kind |-> "partial"]}
    /\ Fail("OSError")
    /\ UNCHANGED <<mode, count, labels, titles, mapping, input_file, heap,
                   data, anonymized, stdout>>

\* print(f"Anonymized {input_path} -> {output_path}")
PrintOk ==
    /\ mode = "main" /\ pc = "Written"
    /\ stdout' = Append(stdout, "Anonymized")
    /\ pc' = "Done"
    /\ UNCHANGED <<mode, count, labels, titles, mapping, input_file, heap,
                   data, anonymized, output_file, error>>

\* print raises OSError when standard output cannot be written.
PrintFails ==
    /\ mode = "main" /\ pc = "Written"
    /\ Fail("OSError")
    /\ UNCHANGED <<mode, count, labels, titles, mapping, input_file, heap,
                   data, anonymized, output_file, stdout>>

Next ==
    \/ LoadOk
    \/ LoadFails
    \/ MapTitles
    \/ MapTitlesFails
    \/ Rewrite
    \/ RewriteFails
    \/ SaveOk
    \/ SaveFails
    \/ PrintOk
    \/ PrintFails

Spec == Init /\ [][Next]_vars

-----------------------------------------------------------------------------
(* C1 *)

\* Value of a string over 'A'..'Z' read as a bijective base-26 numeral whose
\* digits 'A'..'Z' stand for 1..26 (the empty string is 0).
RECURSIVE BijectiveValue(_)
BijectiveValue(s) ==
    IF s = <<>> THEN 0
    ELSE 26 * BijectiveValue(SubSeq(s, 1, Len(s) - 1)) + (s[Len(s)] - 65 + 1)

IsUpper(s) == \A i \in 1..Len(s) : s[i] \in 65..90

LabelAt(k) == labels[k + 1]

\* C1: generate_labels(N) yields exactly N pairwise distinct strings over
\* 'A'..'Z'; the K-th (0-indexed) is the bijective base-26 numeral of K, so
\* that index 0 is "A", 25 is "Z", 26 is "AA", 27 is "AB", 51 is "AZ" and 52
\* is "BA".
C1_Labels ==
    (mode = "labels" /\ pc = "Done") =>
        /\ Len(labels) = count
        /\ Cardinality({labels[i] : i \in 1..Len(labels)}) = count
        /\ \A k \in 0..(count - 1) :
              /\ LabelAt(k).t = "str"
              /\ Len(LabelAt(k).s) >= 1
              /\ IsUpper(LabelAt(k).s)
              /\ BijectiveValue(LabelAt(k).s) = k + 1
        /\ (count > 0 => LabelAt(0) = Str(<<65>>))
        /\ (count > 25 => LabelAt(25) = Str(<<90>>))
        /\ (count > 26 => LabelAt(26) = Str(<<65, 65>>))
        /\ (count > 27 => LabelAt(27) = Str(<<65, 66>>))
        /\ (count > 51 => LabelAt(51) = Str(<<65, 90>>))
        /\ (count > 52 => LabelAt(52) = Str(<<66, 65>>))

\* Labels of one, two and three letters have been produced.
C1_Witness ==
    /\ mode = "labels" /\ pc = "Done"
    /\ count > 702
    /\ LabelAt(701) = Str(<<90, 90>>)
    /\ LabelAt(702) = Str(<<65, 65, 65>>)

-----------------------------------------------------------------------------
(* C2 *)

\* Number of titles of S that are smaller than t.
Rank(t, S) == Cardinality({u \in S : StrLess(u.s, t.s)})

\* The K-th label (0-indexed), written from its bijective base-26 value.
NumeralOf(k) ==
    CHOOSE l \in {Str(<<c>>) : c \in 65..90}
                 \cup {Str(<<c, d>>) : c \in 65..90, d \in 65..90} :
        BijectiveValue(l.s) = k + 1

\* C2: build_mapping returns a mapping whose keys are exactly the unique
\* titles and which is a bijection onto the first M labels (M the number of
\* unique titles), the titles taken in ascending order: the smallest title
\* maps to "A", the second to "B", and so on; no title gives the empty mapping.
C2_Mapping ==
    (mode = "mapping" /\ pc = "Done") =>
        LET S == SetOf(titles)
            M == Cardinality(S)
        IN  /\ DOMAIN mapping = S
            /\ \A t \in S : mapping[t] = NumeralOf(Rank(t, S))
            /\ {mapping[t] : t \in S} = {NumeralOf(k) : k \in 0..(M - 1)}
            /\ \A t, u \in S : mapping[t] = mapping[u] => t = u
            /\ (titles = <<>> => mapping = NoMapping)

\* Three titles, one of them twice and not in sorted order: "a", "B", "a".
C2_Witness ==
    /\ mode = "mapping" /\ pc = "Done"
    /\ titles = <<Str(<<97>>), Str(<<66>>), Str(<<97>>)>>
    /\ mapping[Str(<<66>>)] = Str(<<65>>)
    /\ mapping[Str(<<97>>)] = Str(<<66>>)

-----------------------------------------------------------------------------
(* The input and the output of anonymize, as JSON values *)

\* anonymize has returned.
Returned == mode = "main" /\ pc \in {"Anonymized", "Written", "Done"}

In == input_file.doc
Out == Deref(heap, anonymized)

\* Positions <<room, entry>> of the input document.
Positions ==
    UNION {{<<i, j>> : j \in 1..Len(EntriesOf(In[i]))} : i \in 1..Len(In)}

InEntry(p) == EntriesOf(In[p[1]])[p[2]]
OutEntry(p) == Out[p[1]].f[KeyEntries][p[2]]

Titled == {p \in Positions : KeyTitle \in DOMAIN InEntry(p).f}
Untitled == Positions \ Titled

IsLabel(v) == v.t = "str" /\ Len(v.s) >= 1 /\ IsUpper(v.s)

-----------------------------------------------------------------------------
(* C3 *)

\* C3: every output entry whose input entry has a title carries the label
\* mapped to that title; two entries, of one room or of two, get the same
\* label when their input titles are the same string and different labels
\* when their input titles differ.
C3_LabelConsistency ==
    Returned =>
        /\ \A p \in Titled :
              /\ KeyTitle \in DOMAIN OutEntry(p).f
              /\ IsLabel(OutEntry(p).f[KeyTitle])
              /\ OutEntry(p).f[KeyTitle] = mapping[InEntry(p).f[KeyTitle]]
        /\ \A p, q \in Titled :
              (InEntry(p).f[KeyTitle] = InEntry(q).f[KeyTitle])
                  <=> (OutEntry(p).f[KeyTitle] = OutEntry(q).f[KeyTitle])

\* The same title in two rooms: both entries carry the one label.
C3_Witness ==
    /\ Returned
    /\ \E p, q \in Titled :
          /\ p[1] # q[1]
          /\ InEntry(p).f[KeyTitle] = Str(<<66>>)
          /\ InEntry(q).f[KeyTitle] = Str(<<66>>)
          /\ OutEntry(p).f[KeyTitle] = Str(<<65>>)
          /\ OutEntry(q).f[KeyTitle] = Str(<<65>>)

-----------------------------------------------------------------------------
(* C4 *)

\* The keys of a dict other than title, with their values.
OtherFields(e) == [k \in DOMAIN e.f \ {KeyTitle} |-> e.f[k]]

\* o is the entry e with at most its title changed, a title of e replaced by
\* its label.
DerivedFrom(o, e) ==
    /\ OtherFields(o) = OtherFields(e)
    /\ (KeyTitle \in DOMAIN e.f =>
           /\ KeyTitle \in DOMAIN o.f
           /\ o.f[KeyTitle] = mapping[e.f[KeyTitle]])

\* C4: the output has as many rooms as the input, in the same order; the
\* i-th output room carries the i-th input room's identifier and as many
\* entries as the i-th input room, the j-th derived from the j-th input entry
\* (no entries give entries: []).
C4_Shape ==
    Returned =>
        /\ Len(Out) = Len(In)
        /\ \A i \in 1..Len(In) :
              /\ Out[i].f[KeyRoom] = DictGet(In[i], KeyRoom, None)
              /\ Len(Out[i].f[KeyEntries]) = Len(EntriesOf(In[i]))
              /\ \A j \in 1..Len(EntriesOf(In[i])) :
                    DerivedFrom(Out[i].f[KeyEntries][j], EntriesOf(In[i])[j])

\* Two rooms, the first with two different entries, the second with none.
C4_Witness ==
    /\ Returned
    /\ Len(In) = 2 /\ Len(Out) = 2
    /\ Len(EntriesOf(In[1])) = 2
    /\ EntriesOf(In[1])[1] # EntriesOf(In[1])[2]
    /\ KeyEntries \in DOMAIN In[2].f
    /\ In[2].f[KeyEntries] = <<>>
    /\ Out[2].f[KeyEntries] = <<>>
    /\ Len(Out[1].f[KeyEntries]) = 2

-----------------------------------------------------------------------------
(* C5 *)

\* C5: every output entry has the keys other than title of its input entry,
\* no other key but title, and the input's value under each of them.
C5_OtherFields ==
    Returned =>
        \A p \in Positions :
            /\ DOMAIN OutEntry(p).f \ {KeyTitle} = DOMAIN InEntry(p).f \ {KeyTitle}
            /\ \A k \in DOMAIN InEntry(p).f \ {KeyTitle} :
                  OutEntry(p).f[k] = InEntry(p).f[k]

\* An entry with a note whose title was replaced, and one with a note only.
C5_Witness ==
    /\ Returned
    /\ \E p, q \in Positions :
          /\ DOMAIN InEntry(p).f = {KeyTitle, "note"}
          /\ OutEntry(p).f[KeyTitle] # InEntry(p).f[KeyTitle]
          /\ OutEntry(p).f["note"] = Str(<<120>>)
          /\ DOMAIN InEntry(q).f = {"note"}
          /\ OutEntry(q).f["note"] = Str(<<120>>)

-----------------------------------------------------------------------------
(* C6 *)

\* C6: an entry without a title key is in the output without a title key and
\* otherwise unchanged, whatever titles the other entries carry.
C6_MissingTitlePassthrough ==
    Returned =>
        \A p \in Untitled :
            /\ KeyTitle \notin DOMAIN OutEntry(p).f
            /\ OutEntry(p) = InEntry(p)

-----------------------------------------------------------------------------
(* C7 *)

\* Addresses of the entry objects of a room sequence.
Addresses(rooms) == {AllEntries(rooms)[i] : i \in 1..Len(AllEntries(rooms))}

\* C7: anonymize leaves its input as it was: the room sequence, the rooms
\* and the entries (titles included) are what load_json returned, and the
\* output entries are new objects.
C7_InputNotMutated ==
    Returned =>
        /\ data = LoadedData(In)
        /\ Deref(heap, data) = In
        /\ \A a \in Addresses(data) : heap[a] = LoadedHeap(In)[a]
        /\ Addresses(anonymized) \cap Addresses(data) = {}
        /\ Cardinality(Addresses(anonymized)) = Len(AllEntries(anonymized))

\* A title was overwritten in the copy while the input entry still has it.
C7_Witness ==
    /\ Returned
    /\ \E p \in Titled :
          /\ InEntry(p).f[KeyTitle] = Str(<<65, 66>>)
          /\ OutEntry(p).f[KeyTitle] = Str(<<65>>)
          /\ Deref(heap, data)[p[1]].f[KeyEntries][p[2]].f[KeyTitle] = Str(<<65, 66>>)

-----------------------------------------------------------------------------
(* C10 *)

\* C10: every output room has exactly the keys room and entries; room is the
\* input room's room value, or null when it has none; entries is a list,
\* empty when the input room has no entries key; no other room-level key of
\* the input is carried over.
C10_RoomKeys ==
    Returned =>
        \A i \in 1..Len(In) :
            /\ DOMAIN Out[i].f = {KeyRoom, KeyEntries}
            /\ (KeyRoom \in DOMAIN In[i].f => Out[i].f[KeyRoom] = In[i].f[KeyRoom])
            /\ (KeyRoom \notin DOMAIN In[i].f => Out[i].f[KeyRoom] = None)
            /\ (KeyEntries \notin DOMAIN In[i].f => Out[i].f[KeyEntries] = <<>>)
            /\ DOMAIN Out[i].f[KeyEntries] = 1..Len(EntriesOf(In[i]))

\* A room with neither a room key nor an entries key but with a floor key.
C10_Witness ==
    /\ Returned
    /\ \E i \in 1..Len(In) :
          /\ DOMAIN In[i].f = {"floor"}
          /\ Out[i] = Dict(Merge(Single(KeyRoom, None), Single(KeyEntries, <<>>)))

-----------------------------------------------------------------------------
(* C8 *)

\* anonymize has returned in this run, whatever came after.
AnonymizeCompleted ==
    /\ input_file.kind = "json"
    /\ ~CollectRaises(LoadedHeap(In), LoadedData(In))
    /\ ~RewriteRaises(LoadedHeap(In), LoadedData(In))
    /\ pc \in {"Anonymized", "Written", "Done", "Failed"}
    /\ Len(anonymized) = Len(In)

\* C8: a missing input file ends the run with SystemExit and malformed JSON
\* with the parse error, the output file never opened; the output file is
\* opened only once load_json and anonymize have both returned, and the
\* confirmation line is printed only once the output is written.
C8_NoOutputOnLoadFailure ==
    mode = "main" =>
        /\ input_file.kind # "json" =>
              /\ output_file.kind = "missing"
              /\ stdout = <<>>
              /\ pc \in {"Start", "Failed"}
        /\ (pc = "Failed" /\ input_file.kind = "missing") => error = "SystemExit"
        /\ (pc = "Failed" /\ input_file.kind = "malformed") => error = "JSONDecodeError"
        /\ output_file.kind # "missing" => AnonymizeCompleted
        /\ stdout # <<>> =>
              /\ output_file = [kind |-> "json", doc |-> Out]
              /\ pc = "Done"

\* The run ended on a missing input file with no output file.
C8_Witness ==
    /\ mode = "main" /\ pc = "Failed"
    /\ input_file.kind = "missing"
    /\ error = "SystemExit"
    /\ output_file.kind = "missing"

-----------------------------------------------------------------------------
(* C9 *)

Linear ==
    {<<"Start", "Loaded">>, <<"Loaded", "Mapped">>, <<"Mapped", "Anonymized">>,
     <<"Anonymized", "Written">>, <<"Written", "Done">>}

====
